---- MODULE Spec2Model ----
(***************************************************************************)
(* A model of the ROTSE-III pipeline algorithms of rotseproc:              *)
(*   py/rotseproc/pa/paalgs.py  the processing stages (PAs)                *)
(*   py/rotseproc/qa/qaalgs.py  the monitoring stage Count_Pixels (QA)     *)
(* One behaviour is one invocation of one stage's run() on an output       *)
(* directory and an image artifact drawn by Init.                          *)
(***************************************************************************)
EXTENDS Integers, Sequences, FiniteSets, TLC

(* ------------------------------ bounds -------------------------------- *)

\* The largest number of images in the artifact handed to Count_Pixels.
MaxImages == 4

\* The largest number of files in sub/image when a stage starts.
MaxFiles == 3

(* --------------------------- file names ------------------------------- *)

\* A file name is modelled by its first six characters (the digits YYMMDD
\* that every pipeline product starts with) and by the kind of its suffix:
\* "c" ends in 000-000_c.fit, "cobj" ends in _cobj.fit, "sub" contains sub.
Name(d, k) == [date |-> d, kind |-> k]

\* The names sub/image may hold when a stage starts.
ImageNames ==
    { Name(<<1,9,1,2,3,1>>, "sub"), Name(<<2,0,0,6,0,1>>, "sub"),
      Name(<<2,0,0,6,1,5>>, "sub"), Name(<<2,0,1,2,3,1>>, "sub"),
      Name(<<2,1,0,1,0,1>>, "sub"), Name(<<2,1,0,6,1,5>>, "c") }

\* The files coadd_all may leave in preproc/, and make_rotse3_subimage in coadd/.
CoaddNames == { Name(<<2,0,0,6,0,1>>, "c"), Name(<<2,0,0,6,1,5>>, "c") }
SubimageNames == { Name(<<2,0,0,6,0,1>>, "c"), Name(<<2,0,0,6,0,1>>, "cobj") }

NoName == Name(<<>>, "none")

\* glob patterns of paalgs.py
MatchesCoadd(n) == n.kind = "c"
MatchesC(n) == n.kind = "c"
MatchesCobj(n) == n.kind = "cobj"
MatchesSub(n) == n.kind = "sub"

KindRank(k) == CASE k = "c" -> 0 [] k = "cobj" -> 1 [] k = "sub" -> 2 [] OTHER -> 3

\* Python's str comparison on the six leading characters, then on the suffix.
LexLess(s, t) ==
    \E i \in 1..Len(s) :
        /\ i <= Len(t)
        /\ \A j \in 1..(i - 1) : s[j] = t[j]
        /\ s[i] < t[i]

NameLess(a, b) ==
    \/ LexLess(a.date, b.date)
    \/ a.date = b.date /\ KindRank(a.kind) < KindRank(b.kind)

\* sorted(os.listdir(...)): the names of S in increasing order
RECURSIVE Sorted(_)
Sorted(S) ==
    IF S = {} THEN << >>
    ELSE LET m == CHOOSE x \in S : \A y \in S \ {x} : NameLess(x, y)
         IN  <<m>> \o Sorted(S \ {m})

\* name[:2], name[2:6] and int(name[:2])
Year(n) == SubSeq(n.date, 1, 2)
MonthDay(n) == SubSeq(n.date, 3, 6)
IntOf(dd) == 10 * dd[1] + dd[2]

\* the rule with == for != in the comparison of the years
ChooseTemplateSameYear(images) ==
    IF Year(images[1]) = Year(images[2]) /\ MonthDay(images[1]) # <<1,2,3,1>>
    THEN images[1]
    ELSE images[Len(images)]

\* the rule without its test of the month/day
ChooseTemplateNoMonthDay(images) ==
    IF Year(images[1]) # Year(images[2])
    THEN images[1]
    ELSE images[Len(images)]

\* Choose_Refstars.run_pa, the template rule (images has at least two names)
ChooseTemplate(images) ==
    IF Year(images[1]) # Year(images[2]) /\ MonthDay(images[1]) # <<1,2,3,1>>
    THEN images[1]
    ELSE IF MonthDay(images[1]) = <<1,2,3,1>>
            /\ IntOf(Year(images[1])) = IntOf(Year(images[2])) - 1
         THEN images[Len(images)]
         ELSE images[Len(images)]

(* ------------------------------ stages -------------------------------- *)

PAStages == { "Find_Data", "Coaddition", "Source_Extraction", "Make_Subimages",
              "Image_Differencing", "Choose_Refstars", "Photometry" }
Stages == PAStages \cup { "Count_Pixels" }

\* type(args[0]): "none" stands for a call without positional argument
Kinds == { "none", "HDUList", "list" }

\* the datatype every __init__ hands to the base class as input type
InpType(stage) == "HDUList"

\* PipelineAlg.is_compatible / MonitoringAlg.is_compatible
is_compatible(stage, kind) == kind = InpType(stage)

\* the gate without its is_compatible test
RunGateNoTypeCheck(stage, kind) ==
    IF kind = "none" THEN "exit" ELSE "ok"

\* the first lines of every run(): "exit" is sys.exit()
RunGate(stage, kind) ==
    IF kind = "none" THEN "exit"
    ELSE IF ~is_compatible(stage, kind) THEN "exit"
    ELSE "ok"

(* ------------------------------ state --------------------------------- *)

VARIABLES
    pc,          \* "idle", a position inside a stage, or "done"
    call,        \* the invocation: stage, kind of args[0], keyword arguments
    outcome,     \* "none", "return", "exit" (sys.exit) or "raise" (exception)
    effects,     \* the external calls made so far, in order
    dirs,        \* the directories that exist under outdir
    files,       \* the tracked files of each directory
    cwd,         \* the process's working directory
    lcfile,      \* sub/lightcurve_subtract_target_psf.dat exists
    template,    \* Choose_Refstars: the template handed to rphot
    coadd_files, \* Coaddition: the returned list
    todo,        \* Photometry: the images the loop has still to visit
    phot,        \* Photometry: the list images, whether the light-curve file
                 \* was there at the start, and the images whose own run_phot
                 \* wrote the light-curve file
    images,      \* the image artifact: the average pixel value of each image
    im_count,    \* Count_Pixels: count_avg_pixels(images), once computed
    classified,  \* Count_Pixels: the arguments and result of check_QA_status
    retval,      \* Count_Pixels: the report dictionary
    sink,        \* the reports write_qa_file has persisted, in order
    critical     \* the messages given to log.critical, in order

vars == << pc, call, outcome, effects, critical, dirs, files, cwd, lcfile, template,
           coadd_files, todo, phot, images, im_count, classified, retval, sink >>

fsVars == << dirs, files, cwd, lcfile >>
qaVars == << im_count, classified, retval, sink >>

Dirs == { "preproc", "coadd", "coadd/image", "coadd/prod",
          "sub", "sub/image", "sub/prod", "sub/nophot" }

NoFiles == [d \in Dirs |-> {}]

Effect(op, arg, status) == [op |-> op, arg |-> arg, status |-> status]

(* ------------------------- keyword arguments -------------------------- *)

\* A parameter block (a dict): the keys it has and the value of COUNT_REF.
\* isNone stands for Python's None.
ParamKeys == { "COUNT_REF", "COUNT_NORMAL_RANGE", "COUNT_WARN_RANGE" }
Param(keys, ref) == [isNone |-> FALSE, has |-> keys, ref |-> ref]
ParamNone == [isNone |-> TRUE, has |-> {}, ref |-> 0]
NormalRange == <<5, 10>>
WarnRange == <<0, 5>>
ConfigRefs == { 3 }
Params ==
    { ParamNone, Param(ParamKeys \ {"COUNT_REF"}, 0),
      Param(ParamKeys \ {"COUNT_NORMAL_RANGE"}, 3) }
    \cup { Param(ParamKeys, r) : r \in ConfigRefs }

\* Reference metrics (a dict keyed by metric name), or None.
RefMetrics(keys, v) == [isNone |-> FALSE, has |-> keys, val |-> v]
RefNone == [isNone |-> TRUE, has |-> {}, val |-> 0]
MetricRefs == { 7 }
RefMetricsSet ==
    { RefNone, RefMetrics({}, 0) } \cup { RefMetrics({"COUNT"}, v) : v \in MetricRefs }

\* The keyword arguments of a call. keys are the keywords present among
\* those get_inputs looks for; the processing stages' keywords are always
\* present, with None written "None".
NoKw ==
    [ keys |-> {}, paname |-> "None", night |-> "None", program |-> "None",
      field |-> "None",
      ra |-> "None", dec |-> "None", param |-> ParamNone, refmetrics |-> RefNone ]

Call(stage, kind, kw) == [stage |-> stage, kind |-> kind, kw |-> kw]

(* ------------------------------- Init --------------------------------- *)

Layout(d, f, lc) == [dirs |-> d, files |-> f, lcfile |-> lc]

\* outdir as the pipeline leaves it before Find_Data, after Find_Data,
\* after Coaddition, and after Make_Subimages / Image_Differencing.
FreshLayout == Layout({}, NoFiles, FALSE)
PreprocLayout == Layout({"preproc"}, NoFiles, FALSE)
CoaddDirs == {"preproc", "coadd", "coadd/image", "coadd/prod"}
CoaddLayout == Layout(CoaddDirs, [NoFiles EXCEPT !["coadd/image"] = CoaddNames], FALSE)
SubLayouts ==
    { Layout(CoaddDirs \cup {"sub", "sub/image", "sub/prod"},
             [NoFiles EXCEPT !["coadd/image"] = CoaddNames, !["sub/image"] = S], lc) :
        S \in { T \in SUBSET ImageNames : Cardinality(T) <= MaxFiles },
        lc \in BOOLEAN }
Layouts == { FreshLayout, PreprocLayout, CoaddLayout } \cup SubLayouts

\* The artifact handed to Count_Pixels, by the average pixel value of each
\* of its images.
PixelValues == { 1, 2, 3, 100 }
Artifacts == UNION { [1..n -> PixelValues] : n \in 0..MaxImages }

NoClassified ==
    [ called |-> FALSE, value |-> <<0, 0>>, reference |-> 0,
      norm_range |-> <<>>, warn_range |-> <<>>, status |-> "none" ]
NoReport ==
    [ made |-> FALSE, PROGRAM |-> "None", PANAME |-> "None", PARAMS |-> ParamNone,
      STATUS |-> "none", COUNT |-> <<"str", <<0, 0>>>>,
      COUNT_PER_IMAGE |-> <<"str", <<>>>> ]

NoPhot == [started |-> FALSE, images |-> {}, lc_at_start |-> FALSE, wrote |-> {}]

Init ==
    /\ pc = "idle"
    /\ call = Call("none", "none", NoKw)
    /\ outcome = "none"
    /\ effects = << >>
    /\ critical = << >>
    /\ \E l \in Layouts, a \in Artifacts :
          /\ l = PreprocLayout \/ a = << >>
          /\ dirs = l.dirs
          /\ files = l.files
          /\ lcfile = l.lcfile
          /\ images = a
    /\ cwd = "."
    /\ template = NoName
    /\ coadd_files = {}
    /\ todo = {}
    /\ phot = NoPhot
    /\ im_count = [computed |-> FALSE, value |-> << >>]
    /\ classified = NoClassified
    /\ retval = NoReport
    /\ sink = << >>

(* ------------------------ processing stages --------------------------- *)

\* What a run() leaves behind: the outcome, the external calls, the
\* critical log messages and the file system.
Res(out, eff, crit, d, f, w) ==
    [out |-> out, eff |-> eff, crit |-> crit, dirs |-> d, files |-> f, cwd |-> w]

\* the two sys.exit() of the gate, with their log.critical
GateRes(kind) ==
    Res("exit", << >>,
        IF kind = "none" THEN <<"Missing input parameter!">> ELSE <<"Incompatible input!">>,
        dirs, files, cwd)

\* a run() of a processing stage as one step
Finish(stage, kind, kw, r) ==
    /\ pc' = "done"
    /\ call' = Call(stage, kind, kw)
    /\ outcome' = r.out
    /\ effects' = r.eff
    /\ critical' = r.crit
    /\ dirs' = r.dirs
    /\ files' = r.files
    /\ cwd' = r.cwd

Values == { "None", "set" }

\* Find_Data.run_pa; found is what find_supernova_field(ra, dec) returns
Find_Data_run_pa(program, night, field, ra, dec, found) ==
    IF program = "supernova"
    THEN LET nocoord == field = "None" /\ (ra = "None" \/ dec = "None")
             lookup == field = "None" /\ ~(ra = "None" \/ dec = "None")
             field1 == IF lookup THEN found ELSE field
             c1 == IF nocoord
                   THEN <<"Must provide either the supernova field or coordinates!">>
                   ELSE << >>
             c2 == IF field = "None" /\ field1 = "None"
                   THEN <<"No supernova fields contain data for these coordinates.">>
                   ELSE << >>
             e1 == IF lookup THEN <<Effect("find_supernova_field", "ra,dec", 0)>> ELSE << >>
         IN  Res("return",
                 e1 \o << Effect("find_supernova_data", field1, 0),
                          Effect("match_image_prod", "field", 0),
                          Effect("copy_preproc", "outdir", 0) >>,
                 c1 \o c2, dirs, files, cwd)
    ELSE Res("exit", << >>, <<"Program is not valid, can't find data...">>, dirs, files, cwd)

Find_Data_run ==
    /\ pc = "idle"
    /\ \E kind \in Kinds, night \in Values, program \in {"supernova", "other"},
          field \in Values, ra \in Values, dec \in Values, found \in Values :
          LET kw == [NoKw EXCEPT !.night = night, !.program = program,
                                 !.field = field, !.ra = ra, !.dec = dec]
          IN  Finish("Find_Data", kind, kw,
                     IF RunGate("Find_Data", kind) = "exit" THEN GateRes(kind)
                     ELSE IF night = "None"
                     THEN Res("exit", << >>,
                              <<"Must provide night as a command line argument!">>,
                              dirs, files, cwd)
                     ELSE Find_Data_run_pa(program, night, field, ra, dec, found))
    /\ UNCHANGED << lcfile, template, coadd_files, todo, phot, images, qaVars >>

\* Coaddition.run_pa; status and produced are what the external coadd_all
\* does: its exit status and the coadds it leaves in the working directory
Coaddition_run_pa(status, produced) ==
    IF "preproc" \notin dirs
    THEN Res("raise", << >>, << >>, dirs, files, cwd)
    ELSE LET eff == << Effect("os.system", "coadd_all", status) >>
             f1 == [files EXCEPT !["preproc"] = @ \cup produced]
         IN  IF "coadd" \in dirs
             THEN Res("raise", eff, << >>, dirs, f1, "preproc")
             ELSE LET coadds == { c \in f1["preproc"] : MatchesCoadd(c) }
                      f2 == [f1 EXCEPT !["preproc"] = @ \ coadds,
                                       !["coadd/image"] = @ \cup coadds]
                  IN  Res("return", eff, << >>,
                          dirs \cup {"coadd", "coadd/image", "coadd/prod"}, f2, "preproc")

Coaddition_run ==
    /\ pc = "idle"
    /\ \E kind \in Kinds, status \in {0, 1}, produced \in SUBSET CoaddNames :
          LET r == IF RunGate("Coaddition", kind) = "exit" THEN GateRes(kind)
                   ELSE Coaddition_run_pa(status, produced)
          IN  /\ Finish("Coaddition", kind, NoKw, r)
              /\ coadd_files' = IF r.out = "return" THEN r.files["coadd/image"] ELSE {}
    /\ UNCHANGED << lcfile, template, todo, phot, images, qaVars >>

\* n times the same external call
RECURSIVE Repeat(_, _)
Repeat(e, n) == IF n = 0 THEN << >> ELSE <<e>> \o Repeat(e, n - 1)

\* Source_Extraction.run_pa; status is the exit status of the sex runs
Source_Extraction_run_pa(status) ==
    IF "coadd" \notin dirs \/ "coadd/image" \notin dirs
    THEN Res("raise", << >>, << >>, dirs, files, cwd)
    ELSE LET coadds == files["coadd/image"]
         IN  IF \E c \in coadds : ~MatchesCoadd(c)
             THEN Res("raise", << >>, << >>, dirs, files, "coadd")
             ELSE Res("return",
                      Repeat(Effect("os.system", "sex", status), Cardinality(coadds))
                          \o << Effect("os.system", "singularity shell", 0) >>,
                      << >>, dirs, files, "coadd")

Source_Extraction_run ==
    /\ pc = "idle"
    /\ \E kind \in Kinds, status \in {0, 1} :
          Finish("Source_Extraction", kind, NoKw,
                 IF RunGate("Source_Extraction", kind) = "exit" THEN GateRes(kind)
                 ELSE Source_Extraction_run_pa(status))
    /\ UNCHANGED << lcfile, template, coadd_files, todo, phot, images, qaVars >>

\* Make_Subimages.run_pa; status and produced are what the external
\* make_rotse3_subimage does
Make_Subimages_run_pa(program, status, produced) ==
    LET e0 == IF program = "supernova"
              THEN << Effect("find_reference_image", "tempdir,outdir", 0) >>
              ELSE << >>
    IN  IF "coadd/image" \notin dirs
        THEN Res("raise", e0, << >>, dirs, files, cwd)
        ELSE LET eff == e0 \o << Effect("os.system", "make_rotse3_subimage", status) >>
                 f1 == [files EXCEPT !["coadd"] = @ \cup produced]
             IN  IF "sub" \in dirs
                 THEN Res("raise", eff, << >>, dirs, f1, "coadd")
                 ELSE LET imgs == { i \in f1["coadd"] : MatchesC(i) }
                          prods == { q \in f1["coadd"] : MatchesCobj(q) }
                          f2 == [f1 EXCEPT !["coadd"] = (@ \ imgs) \ prods,
                                           !["sub/image"] = @ \cup imgs,
                                           !["sub/prod"] = @ \cup prods]
                      IN  Res("return", eff, << >>,
                              dirs \cup {"sub", "sub/image", "sub/prod"}, f2, "coadd")

Make_Subimages_run ==
    /\ pc = "idle"
    /\ \E kind \in Kinds, program \in {"supernova", "other"}, status \in {0, 1},
          produced \in SUBSET SubimageNames :
          Finish("Make_Subimages", kind, [NoKw EXCEPT !.program = program],
                 IF RunGate("Make_Subimages", kind) = "exit" THEN GateRes(kind)
                 ELSE Make_Subimages_run_pa(program, status, produced))
    /\ UNCHANGED << lcfile, template, coadd_files, todo, phot, images, qaVars >>

\* Image_Differencing.run_pa; status is the exit status of the shell command
Image_Differencing_run_pa(status) ==
    IF "sub" \notin dirs
    THEN Res("raise", << >>, << >>, dirs, files, cwd)
    ELSE Res("return", << Effect("os.system", "difference_all.py", status) >>,
             << >>, dirs, files, "sub")

Image_Differencing_run ==
    /\ pc = "idle"
    /\ \E kind \in Kinds, status \in {0, 1} :
          Finish("Image_Differencing", kind, NoKw,
                 IF RunGate("Image_Differencing", kind) = "exit" THEN GateRes(kind)
                 ELSE Image_Differencing_run_pa(status))
    /\ UNCHANGED << lcfile, template, coadd_files, todo, phot, images, qaVars >>

\* Choose_Refstars.run_pa; status is the exit status of rphot. tmpl is the
\* template, NoName when the stage fails before choosing it.
Choose_Refstars_run_pa(status) ==
    IF "sub/image" \notin dirs
    THEN [res |-> Res("raise", << >>, << >>, dirs, files, cwd), tmpl |-> NoName]
    ELSE LET listing == Sorted(files["sub/image"])
         IN  IF Len(listing) < 2
             THEN [res |-> Res("raise", << >>, << >>, dirs, files, cwd), tmpl |-> NoName]
             ELSE [res |-> Res("return", << Effect("os.system", "rphot", status) >>,
                               << >>, dirs, files, "sub"),
                   tmpl |-> ChooseTemplate(listing)]

Choose_Refstars_run ==
    /\ pc = "idle"
    /\ \E kind \in Kinds, status \in {0, 1} :
          LET r == IF RunGate("Choose_Refstars", kind) = "exit"
                   THEN [res |-> GateRes(kind), tmpl |-> NoName]
                   ELSE Choose_Refstars_run_pa(status)
          IN  /\ Finish("Choose_Refstars", kind, NoKw, r.res)
              /\ template' = r.tmpl
    /\ UNCHANGED << lcfile, coadd_files, todo, phot, images, qaVars >>

\* Photometry.run and run_pa down to os.mkdir(nophotdir)
Photometry_run ==
    /\ pc = "idle"
    /\ \E kind \in Kinds :
          LET globbed == IF "sub/image" \in dirs
                         THEN { n \in files["sub/image"] : MatchesSub(n) }
                         ELSE {}
          IN  /\ call' = Call("Photometry", kind, NoKw)
              /\ IF RunGate("Photometry", kind) = "exit"
                 THEN /\ pc' = "done"
                      /\ outcome' = "exit"
                      /\ critical' = GateRes(kind).crit
                      /\ UNCHANGED << dirs, cwd, todo, phot >>
                 ELSE IF "sub" \notin dirs
                 THEN /\ pc' = "done"
                      /\ outcome' = "raise"
                      /\ UNCHANGED << critical, dirs, cwd, todo, phot >>
                 ELSE IF "sub/nophot" \in dirs
                 THEN /\ pc' = "done"
                      /\ outcome' = "raise"
                      /\ cwd' = "sub"
                      /\ UNCHANGED << critical, dirs, todo, phot >>
                 ELSE /\ pc' = "phot_loop"
                      /\ outcome' = "none"
                      /\ cwd' = "sub"
                      /\ dirs' = dirs \cup {"sub/nophot"}
                      /\ todo' = globbed
                      /\ phot' = [ started |-> TRUE, images |-> globbed,
                                   lc_at_start |-> lcfile, wrote |-> {} ]
                      /\ UNCHANGED critical
    /\ UNCHANGED << effects, files, lcfile, template, coadd_files, images, qaVars >>

\* a pass of the loop that leaves the light-curve file where it is
Photometry_image_keeping_lcfile ==
    /\ pc = "phot_loop"
    /\ todo # {}
    /\ \E image \in todo, status \in {0, 1}, produced \in BOOLEAN :
          /\ effects' = Append(effects, Effect("os.system", "run_phot,night", status))
          /\ lcfile' = (lcfile \/ produced)
          /\ files' = IF lcfile \/ produced
                      THEN files
                      ELSE [files EXCEPT !["sub/image"] = @ \ {image},
                                         !["sub/nophot"] = @ \cup {image}]
          /\ todo' = todo \ {image}
          /\ phot' = IF produced
                     THEN [phot EXCEPT !.wrote = @ \cup {image}]
                     ELSE phot
    /\ UNCHANGED << pc, call, outcome, critical, dirs, cwd, template, coadd_files,
                    images, qaVars >>

\* One pass of the loop "for image in images"; status and produced are what
\* the external run_phot does: its exit status, and whether it writes the
\* light-curve file.
Photometry_image ==
    /\ pc = "phot_loop"
    /\ todo # {}
    /\ \E image \in todo, status \in {0, 1}, produced \in BOOLEAN :
          /\ effects' = Append(effects, Effect("os.system", "run_phot,night", status))
          /\ IF lcfile \/ produced
             THEN /\ lcfile' = FALSE
                  /\ files' = files
             ELSE /\ lcfile' = FALSE
                  /\ files' = [files EXCEPT !["sub/image"] = @ \ {image},
                                            !["sub/nophot"] = @ \cup {image}]
          /\ todo' = todo \ {image}
          /\ phot' = IF produced
                     THEN [phot EXCEPT !.wrote = @ \cup {image}]
                     ELSE phot
    /\ UNCHANGED << pc, call, outcome, critical, dirs, cwd, template, coadd_files,
                    images, qaVars >>

\* The rest of Photometry.run_pa; readable says whether
\* get_light_curve_data returns (it raises otherwise)
Photometry_finish ==
    /\ pc = "phot_loop"
    /\ todo = {}
    /\ \E status \in {0, 1}, produced \in BOOLEAN, readable \in BOOLEAN :
          LET eff == << Effect("os.system", "run_phot,all", status),
                        Effect("get_light_curve_data", "lc_data_file", 0) >>
          IN  /\ dirs' = IF files["sub/nophot"] = {} THEN dirs \ {"sub/nophot"} ELSE dirs
              /\ lcfile' = (lcfile \/ produced)
              /\ IF readable
                 THEN /\ outcome' = "return"
                      /\ effects' = effects \o eff \o
                            << Effect("Table.write", "lightcurve.fits", 0),
                               Effect("plot_light_curve", "dumpfile", 0) >>
                 ELSE /\ outcome' = "raise"
                      /\ effects' = effects \o eff
    /\ pc' = "done"
    /\ UNCHANGED << call, critical, files, cwd, todo, phot, template, coadd_files,
                    images, qaVars >>

(* ------------------------- monitoring stage --------------------------- *)

QAKeys == { "paname", "program", "qafile", "qafig", "param", "refmetrics" }
KeySets == { QAKeys, QAKeys \ {"param"}, QAKeys \ {"refmetrics"}, {"param"} }
Severities == { "NORMAL", "WARNING", "ALERT" }

\* get_inputs: every keyword that is absent becomes None
get_inputs(kw) ==
    [ paname |-> IF "paname" \in kw.keys THEN kw.paname ELSE "None",
      program |-> IF "program" \in kw.keys THEN kw.program ELSE "None",
      param |-> IF "param" \in kw.keys THEN kw.param ELSE ParamNone,
      refmetrics |-> IF "refmetrics" \in kw.keys THEN kw.refmetrics ELSE RefNone ]

\* sorted copy of a sequence of numbers
RECURSIVE SortedValues(_)
SortedValues(s) ==
    IF s = << >> THEN << >>
    ELSE LET i == CHOOSE k \in 1..Len(s) : \A j \in 1..Len(s) : s[k] <= s[j]
         IN  <<s[i]>> \o SortedValues(SubSeq(s, 1, i - 1) \o SubSeq(s, i + 1, Len(s)))

\* A number n/d as <<n, d>> in lowest terms for d in {1, 2}; nan is <<0, 0>>.
Half(n2) == IF n2 % 2 = 0 THEN <<n2 \div 2, 1>> ELSE <<n2, 2>>
NaN == <<0, 0>>

\* a median that takes the lower of the two middle values
MedianLowerMiddle(s) ==
    IF s = << >> THEN NaN
    ELSE LET t == SortedValues(s)
         IN  Half(2 * t[(Len(t) + 1) \div 2])

\* np.median
Median(s) ==
    IF s = << >> THEN NaN
    ELSE LET t == SortedValues(s)
             n == Len(t)
         IN  IF n % 2 = 1 THEN Half(2 * t[(n + 1) \div 2])
             ELSE Half(t[n \div 2] + t[n \div 2 + 1])

\* str()
Str(x) == <<"str", x>>

\* run_qa without its check of param
ParamNeverMissing(param) == FALSE

\* the check "if param is None" of run_qa
ParamMissing(param) == param.isNone

\* Count_Pixels.run and run_qa down to check_QA_status; status is what the
\* classifier returns
Count_Pixels_run ==
    /\ pc = "idle"
    /\ \E kind \in Kinds, keys \in KeySets, prm \in Params, ref \in RefMetricsSet,
          status \in Severities :
          /\ "param" \notin keys => prm = ParamNone
          /\ "refmetrics" \notin keys => ref = RefNone
          /\ LET kw == [NoKw EXCEPT !.keys = keys, !.paname = "Coaddition",
                                    !.program = "supernova",
                                    !.param = prm, !.refmetrics = ref]
                 inputs == get_inputs(kw)
                 param == inputs.param
                 count == Median(images)
             IN  /\ call' = Call("Count_Pixels", kind, kw)
                 /\ IF RunGate("Count_Pixels", kind) = "exit"
                    THEN /\ pc' = "done"
                         /\ outcome' = "exit"
                         /\ critical' = IF kind = "none"
                                        THEN <<"No parameter is found for this QA">>
                                        ELSE <<"Incompatible input!">>
                         /\ UNCHANGED << im_count, classified >>
                    ELSE IF ParamMissing(param)
                    THEN /\ pc' = "done"
                         /\ outcome' = "exit"
                         /\ critical' = <<"No parameter is found for this QA">>
                         /\ UNCHANGED << im_count, classified >>
                    ELSE IF param.isNone \/ ParamKeys \ param.has # {}
                    THEN /\ pc' = "done"
                         /\ outcome' = "raise"
                         /\ im_count' = [computed |-> TRUE, value |-> images]
                         /\ UNCHANGED << critical, classified >>
                    ELSE /\ pc' = "qa_classified"
                         /\ outcome' = "none"
                         /\ im_count' = [computed |-> TRUE, value |-> images]
                         /\ classified' =
                               [ called |-> TRUE, value |-> count,
                                 reference |-> param.ref,
                                 norm_range |-> NormalRange, warn_range |-> WarnRange,
                                 status |-> status ]
                         /\ UNCHANGED critical
    /\ UNCHANGED << effects, fsVars, template, coadd_files, todo, phot, images, retval, sink >>

\* retval = {...}
Count_Pixels_report ==
    /\ pc = "qa_classified"
    /\ LET inputs == get_inputs(call.kw)
       IN  retval' = [ made |-> TRUE, PROGRAM |-> inputs.program,
                       PANAME |-> inputs.paname, PARAMS |-> inputs.param,
                       STATUS |-> classified.status,
                       COUNT |-> Str(classified.value),
                       COUNT_PER_IMAGE |-> Str(im_count.value) ]
    /\ pc' = "qa_report"
    /\ UNCHANGED << call, outcome, effects, critical, fsVars, template, coadd_files,
                    todo, phot, images, im_count, classified, sink >>

\* write_qa_file(qafile, retval)
Count_Pixels_write ==
    /\ pc = "qa_report"
    /\ sink' = Append(sink, retval)
    /\ effects' = Append(effects, Effect("write_qa_file", "qafile,retval", 0))
    /\ pc' = "qa_written"
    /\ UNCHANGED << call, outcome, critical, fsVars, template, coadd_files, todo, phot,
                    images, im_count, classified, retval >>

\* a plot step that also rewrites the report it was given
Count_Pixels_plot_rewriting ==
    /\ pc = "qa_written"
    /\ effects' = Append(effects, Effect("plot_Count_Pixels", "qafig,im_count", 0))
    /\ retval' = [retval EXCEPT !.COUNT_PER_IMAGE = Str(<< >>)]
    /\ pc' = "qa_plotted"
    /\ UNCHANGED << call, outcome, critical, fsVars, template, coadd_files, todo, phot,
                    images, im_count, classified, sink >>

\* qaplots.plot_Count_Pixels(qafig, im_count)
Count_Pixels_plot ==
    /\ pc = "qa_written"
    /\ effects' = Append(effects, Effect("plot_Count_Pixels", "qafig,im_count", 0))
    /\ pc' = "qa_plotted"
    /\ UNCHANGED << call, outcome, critical, fsVars, template, coadd_files, todo, phot,
                    images, qaVars >>

\* return retval
Count_Pixels_return ==
    /\ pc = "qa_plotted"
    /\ outcome' = "return"
    /\ pc' = "done"
    /\ UNCHANGED << call, effects, critical, fsVars, template, coadd_files, todo, phot,
                    images, qaVars >>

Next ==
    \/ Find_Data_run
    \/ Coaddition_run
    \/ Source_Extraction_run
    \/ Make_Subimages_run
    \/ Image_Differencing_run
    \/ Choose_Refstars_run
    \/ Photometry_run
    \/ Photometry_image
    \/ Photometry_finish
    \/ Count_Pixels_run
    \/ Count_Pixels_report
    \/ Count_Pixels_write
    \/ Count_Pixels_plot
    \/ Count_Pixels_return

Spec == Init /\ [][Next]_vars

(* ------------------------------ claims -------------------------------- *)

Ran(stage) == pc # "idle" /\ call.stage = stage
Accepted == call.kind = InpType(call.stage)
Returned(stage) == pc = "done" /\ call.stage = stage /\ outcome = "return"
Fatal == pc = "done" /\ outcome \in {"exit", "raise"}

Listing == Sorted(files["sub/image"])
D200601 == Name(<<2,0,0,6,0,1>>, "sub")
D200615 == Name(<<2,0,0,6,1,5>>, "sub")
D201231 == Name(<<2,0,1,2,3,1>>, "sub")
D210101 == Name(<<2,1,0,1,0,1>>, "sub")

\* the year-end condition: month/day '1231' and a year one less than the next
YearEnd(l) ==
    /\ MonthDay(l[1]) = <<1,2,3,1>>
    /\ IntOf(Year(l[1])) = IntOf(Year(l[2])) - 1

\* C1 as stated: whenever Choose_Refstars has chosen a template from a
\* sorted list without the year-end condition, the template is the earliest
\* image.
C1_Original ==
    Returned("Choose_Refstars") /\ ~YearEnd(Listing) => template = Listing[1]

\* C1 amended: without the year-end condition, the template is the earliest
\* image exactly when the first two names differ in their year and the
\* first name's month/day is not '1231', and the latest image otherwise; for
\* ['200601', '200615'] it is '200615'.
C1_EarliestOnlyAcrossYears ==
    Returned("Choose_Refstars") /\ ~YearEnd(Listing) =>
        /\ (Year(Listing[1]) # Year(Listing[2]) /\ MonthDay(Listing[1]) # <<1,2,3,1>>)
              => template = Listing[1]
        /\ ~(Year(Listing[1]) # Year(Listing[2]) /\ MonthDay(Listing[1]) # <<1,2,3,1>>)
              => template = Listing[Len(Listing)]
        /\ Listing = <<D200601, D200615>> => template = D200615

C1_Witness ==
    /\ Returned("Choose_Refstars")
    /\ Len(Listing) = 3
    /\ Listing[1] = D200601
    /\ Listing[2] = D210101
    /\ template = D200601

\* C2: whenever Choose_Refstars has chosen a template from a sorted list
\* whose first name has month/day '1231' and a year one less than the second
\* name's, the template is the latest image; for ['201231', '210101'] it is
\* '210101'.
C2_YearEndChoosesLatest ==
    Returned("Choose_Refstars") /\ YearEnd(Listing) =>
        /\ template = Listing[Len(Listing)]
        /\ Listing = <<D201231, D210101>> => template = D210101

C2_Witness ==
    /\ Returned("Choose_Refstars")
    /\ Listing = <<D201231, D210101>>
    /\ template = D210101

\* C3: a run() whose first positional argument is of another kind than the
\* stage's input kind ends in sys.exit in that very step and leaves every
\* external call, the directories, the files, the working directory and the
\* report untouched.
C3_StartsWrongKind ==
    /\ pc = "idle"
    /\ call'.stage \in Stages
    /\ call'.kind # "none"
    /\ call'.kind # InpType(call'.stage)

C3_WrongKindNoSideEffect ==
    [][ C3_StartsWrongKind =>
            /\ pc' = "done"
            /\ outcome' = "exit"
            /\ UNCHANGED << effects, fsVars, template, coadd_files, todo, phot, qaVars >>
      ]_vars

C3_Witness ==
    /\ pc = "done"
    /\ call.stage = "Photometry"
    /\ call.kind = "list"
    /\ outcome = "exit"
    /\ files["sub/image"] # {}
    /\ effects = << >>

\* C4: Count_Pixels run on compatible input without a parameter block (no
\* 'param' keyword, or param None) ends in sys.exit with the metric not
\* computed, the classifier, write_qa_file and the plot never called, and no
\* report made.
C4_NoParam ==
    /\ Ran("Count_Pixels")
    /\ Accepted
    /\ ("param" \notin call.kw.keys \/ call.kw.param.isNone)

C4_NoParamNoReport ==
    C4_NoParam =>
        /\ pc = "done"
        /\ outcome = "exit"
        /\ ~im_count.computed
        /\ ~classified.called
        /\ ~retval.made
        /\ sink = << >>
        /\ effects = << >>

C4_Witness ==
    /\ C4_NoParam
    /\ "param" \notin call.kw.keys
    /\ Len(images) = 2
    /\ outcome = "exit"

\* C5 as stated: the reference handed to the classifier is the entry of the
\* reference metrics keyed by the metric's name whenever there is one, and
\* param['COUNT_REF'] only otherwise.
C5_Original ==
    Ran("Count_Pixels") /\ classified.called =>
        LET refmetrics == IF "refmetrics" \in call.kw.keys
                          THEN call.kw.refmetrics ELSE RefNone
        IN  IF ~refmetrics.isNone /\ "COUNT" \in refmetrics.has
            THEN classified.reference = refmetrics.val
            ELSE classified.reference = call.kw.param.ref

\* C6 as stated: with the normal and warn ranges but no COUNT_REF in the
\* parameter block, and no reference metrics, Count_Pixels classifies the
\* metric, writes the report and returns it.
C6_NoReference ==
    /\ Ran("Count_Pixels")
    /\ Accepted
    /\ "param" \in call.kw.keys
    /\ ~call.kw.param.isNone
    /\ call.kw.param.has = {"COUNT_NORMAL_RANGE", "COUNT_WARN_RANGE"}
    /\ ("refmetrics" \notin call.kw.keys \/ call.kw.refmetrics.isNone)

C6_Original ==
    C6_NoReference =>
        /\ classified.called
        /\ pc = "done" => (outcome = "return" /\ sink = <<retval>>)

\* C7 as stated: Find_Data with Night None, or (program 'supernova') with
\* Field None and RA or DEC None, or with no field resolved from the
\* coordinates, ends in a fatal failure without calling
\* find_supernova_data, match_image_prod or copy_preproc.
Called(op) == \E i \in 1..Len(effects) : effects[i].op = op
Logged(msg) == \E i \in 1..Len(critical) : critical[i] = msg

C7_MissingParameter ==
    /\ Ran("Find_Data")
    /\ Accepted
    /\ \/ call.kw.night = "None"
       \/ /\ call.kw.program = "supernova"
          /\ call.kw.field = "None"
          /\ (call.kw.ra = "None" \/ call.kw.dec = "None")
       \/ /\ call.kw.program = "supernova"
          /\ call.kw.field = "None"
          /\ Logged("No supernova fields contain data for these coordinates.")

C7_Original ==
    C7_MissingParameter =>
        /\ Fatal
        /\ ~Called("find_supernova_data")
        /\ ~Called("match_image_prod")
        /\ ~Called("copy_preproc")

\* C8 as stated: a processing stage whose external tool exits non-zero, or
\* leaves none of its expected output files, ends in a fatal failure;
\* Coaddition never returns an empty coadd list.
ToolFailed ==
    \E i \in 1..Len(effects) : effects[i].op = "os.system" /\ effects[i].status # 0

C8_Original ==
    /\ (pc = "done" /\ call.stage \in {"Coaddition", "Image_Differencing"} /\ ToolFailed)
          => Fatal
    /\ Returned("Coaddition") => coadd_files # {}

\* twice the number <<n, d>>
Twice(m) == IF m[2] = 1 THEN 2 * m[1] ELSE m[1]

\* m is the median of s: the middle value of an odd number of values, the
\* mean of the two middle values of an even number; as many of the other
\* values lie at or below the middle as at or above it.
IsMedian(m, s) ==
    /\ m[2] \in {1, 2}
    /\ m[2] = 2 => m[1] % 2 = 1
    /\ \E i \in 1..Len(s), j \in 1..Len(s) :
          /\ (Len(s) % 2 = 1) <=> (i = j)
          /\ s[i] <= s[j]
          /\ Twice(m) = s[i] + s[j]
          /\ \E L \in SUBSET ((1..Len(s)) \ {i, j}) :
                LET H == ((1..Len(s)) \ {i, j}) \ L
                IN  /\ Cardinality(L) = Cardinality(H)
                    /\ \A k \in L : s[k] <= s[i]
                    /\ \A k \in H : s[k] >= s[j]

\* C9: for every non-empty collection of per-image values, the value
\* Count_Pixels hands to the classifier is the median of the collection, the
\* report's COUNT is that median and its COUNT_PER_IMAGE the collection
\* itself (both stringified); [1,2,3,100] is classified via 2.5.
C9_ClassifiesMedian ==
    Ran("Count_Pixels") /\ classified.called /\ images # << >> =>
        /\ im_count.value = images
        /\ IsMedian(classified.value, images)
        /\ images = <<1, 2, 3, 100>> => classified.value = <<5, 2>>
        /\ retval.made =>
              /\ retval.COUNT = Str(classified.value)
              /\ retval.COUNT_PER_IMAGE = Str(images)

C9_Witness ==
    /\ Ran("Count_Pixels")
    /\ images = <<1, 2, 3, 100>>
    /\ retval.made
    /\ retval.COUNT = Str(<<5, 2>>)

\* C10: in a Count_Pixels run the report is made after the classification
\* from the program, the stage name, the parameter block, the classifier's
\* status and the two metrics; write_qa_file gets it once, before the plot
\* call and the return; once made the report never changes, nor does what
\* was persisted, so the report returned is the one persisted.
WriteThenPlot ==
    << Effect("write_qa_file", "qafile,retval", 0),
       Effect("plot_Count_Pixels", "qafig,im_count", 0) >>

C10_State ==
    Ran("Count_Pixels") =>
        /\ Len(sink) <= 1
        /\ retval.made =>
              /\ classified.called
              /\ retval.PROGRAM =
                    (IF "program" \in call.kw.keys THEN call.kw.program ELSE "None")
              /\ retval.PANAME =
                    (IF "paname" \in call.kw.keys THEN call.kw.paname ELSE "None")
              /\ retval.PARAMS = call.kw.param
              /\ retval.STATUS = classified.status
              /\ retval.COUNT = Str(classified.value)
              /\ retval.COUNT_PER_IMAGE = Str(im_count.value)
        /\ Called("write_qa_file") <=> sink # << >>
        /\ sink # << >> => (retval.made /\ sink = <<retval>>)
        /\ Called("plot_Count_Pixels") => effects = WriteThenPlot
        /\ outcome = "return" => (sink = <<retval>> /\ effects = WriteThenPlot)

C10_Step ==
    /\ retval.made => retval' = retval
    /\ sink # << >> => sink' = sink

C10_ReportWrittenOnceUnchanged == []C10_State /\ [][C10_Step]_vars

C10_Witness ==
    /\ Returned("Count_Pixels")
    /\ Len(images) = 2
    /\ sink = <<retval>>
    /\ retval.STATUS = "WARNING"

\* C11: in a Photometry run that entered its loop with no light-curve file
\* in sub/, the file is absent before every per-image run_phot; an image the
\* loop has visited is in sub/image if and only if its own run_phot wrote
\* the light-curve file and in sub/nophot otherwise; an image not yet
\* visited is still in sub/image; so after the loop every image is in
\* exactly one of the two directories; and once the stage has ended, nophot
\* exists exactly when some image was moved into it.
C11_CleanStart ==
    /\ Ran("Photometry")
    /\ phot.started
    /\ ~phot.lc_at_start

RunPhotPerImage ==
    Cardinality({ i \in 1..Len(effects) : effects[i].arg = "run_phot,night" })

C11_OwnRunDecides ==
    C11_CleanStart =>
        LET visited == phot.images \ todo
            kept == files["sub/image"]
            moved == files["sub/nophot"]
        IN  /\ pc = "phot_loop" => (~lcfile /\ "sub/nophot" \in dirs)
            /\ RunPhotPerImage = Cardinality(visited)
            /\ \A i \in visited : (i \in kept) <=> (i \in phot.wrote)
            /\ \A i \in visited : (i \in moved) <=> (i \notin phot.wrote)
            /\ \A i \in todo : i \in kept /\ i \notin moved
            /\ moved \subseteq phot.images
            /\ \A i \in phot.images : (i \in kept) # (i \in moved)
            /\ pc = "done" =>
                  (("sub/nophot" \notin dirs) <=> (phot.images \ phot.wrote = {}))

C11_Witness ==
    /\ C11_CleanStart
    /\ pc = "done"
    /\ outcome = "return"
    /\ Cardinality(phot.images) = 3
    /\ Cardinality(phot.wrote) = 2
    /\ Cardinality(files["sub/nophot"]) = 1
    /\ "sub/nophot" \in dirs

====
